---------------------------- MODULE Spec2Model ----------------------------
(***************************************************************************)
(* Model of the matching engine of the alicit repository:                  *)
(*   src/src/matching/vectorizers.py      text normalisation, embedding    *)
(*                                        backends, similarity scoring     *)
(*   src/src/matching/matching_engine.py  the two-phase matching runs      *)
(*   src/src/matching/pncp_api.py         the stores the runs read/write   *)
(*                                                                         *)
(* Texts are sequences of characters.  A character is a one-letter string; *)
(* an accented letter is written as the letter followed by its mark        *)
(* ("c," is c-cedilla, "a~" is a-tilde, "i'" is i-acute); each is one      *)
(* element of the sequence, as it is one code point in Python.             *)
(*                                                                         *)
(* Scores are fixed-point numbers: the float s of the code is the integer  *)
(* s * SCALE.  SCALE is a multiple of 100 (bonuses and thresholds are      *)
(* hundredths), of 25 (the cosines of the modelled vectors) and of 2*k for *)
(* every item count k of the model, so that every score of the model is    *)
(* represented exactly.                                                    *)
(***************************************************************************)
EXTENDS Integers, Sequences, FiniteSets, TLC

VARIABLES
    \* harness of the pure functions
    h_op,       \* the function last applied ("idle" before, "off" in a run)
    h_in,       \* its input
    h_out,      \* its result
    \* the database (pncp_api.py)
    empresas,         \* table empresas: the descriptions, in ORDER BY order
    licitacoes,       \* table licitacoes: rows [pncp_id, status], oldest first
    licitacao_itens,  \* table licitacao_itens: pncp_id -> item descriptions
    matches,          \* table matches: rows, oldest first
    \* one run of process_daily_bids or reevaluate_existing_bids
    pc,               \* where the run is
    run,              \* "daily" or "reevaluate" ("none" before a run)
    clear_matches,    \* the argument clear_matches of the re-evaluation
    vectorizer,       \* the vectorizer handed to the run
    faults,           \* backend calls of the run that failed so far
    companies,        \* the loaded companies, each with its embedding
    bids,             \* new_bids / existing_bids: the pncp_ids to process
    bid_index,        \* position of the current bid in bids
    items,            \* item descriptions of the current bid
    bid_embedding,    \* embedding of the current bid's object text
    potential_matches,\* phase-1 candidates of the current bid
    item_embeddings,  \* what batch_vectorize returned for the items
    estatisticas,     \* the counters of the run
    matches_encontrados,
    \* the run endpoints (api.py)
    config,           \* the JSON body of the request that started the run
    matching_attributes, \* the attributes api.py has set on the package matching
    process_status,   \* the dict process_status: kind -> [running, last_result]
    threads           \* the background threads started so far: [kind, pc, outcome]

hvars == <<h_op, h_in, h_out>>
dbvars == <<empresas, licitacoes, licitacao_itens, matches>>
runvars == <<pc, run, clear_matches, vectorizer, faults, companies, bids, bid_index, items,
             bid_embedding, potential_matches, item_embeddings, estatisticas,
             matches_encontrados>>
apivars == <<config, matching_attributes, process_status, threads>>
vars == <<hvars, dbvars, runvars, apivars>>

---------------------------------------------------------------------------
(* Bounds of the model *)

\* longest input text of the normalisation harness, in characters
MaxTextLen == 3

\* longest list handed to batch_vectorize by the backend harness
MaxBatch == 2

\* most companies registered
MaxCompanies == 2

\* most bids PNCP publishes on the day of a daily run
MaxBids == 2

\* most backend calls that fail in one run
MaxFaults == 1

---------------------------------------------------------------------------
(* Characters *)

Space == " "
Digits == {"1", "2"}
Punctuation == {".", "-"}
UpperCase == {"T", "I"}
Accented == {"c,", "a~", "i'"}

\* str.lower() on one character
lower_char(c) ==
    CASE c = "T" -> "t"
      [] c = "I" -> "i"
      [] OTHER -> c

\* unidecode() on one character: the accent is dropped
unidecode_char(c) ==
    CASE c = "c," -> "c"
      [] c = "a~" -> "a"
      [] c = "i'" -> "i"
      [] OTHER -> c

\* \s of the regular expressions
IsSpace(c) == c = Space

\* \w of the regular expressions: letters (accented ones too), digits
IsWordChar(c) == ~IsSpace(c) /\ c \notin Punctuation

MapChars(f(_), s) == [i \in 1..Len(s) |-> f(s[i])]

lower(s) == MapChars(lower_char, s)

unidecode(s) == MapChars(unidecode_char, s)

RECURSIVE SplitAcc(_, _, _)
SplitAcc(s, cur, acc) ==
    IF s = <<>>
    THEN IF cur = <<>> THEN acc ELSE Append(acc, cur)
    ELSE IF IsSpace(Head(s))
         THEN SplitAcc(Tail(s), <<>>, IF cur = <<>> THEN acc ELSE Append(acc, cur))
         ELSE SplitAcc(Tail(s), Append(cur, Head(s)), acc)

\* str.split(): the maximal runs of non-whitespace characters
split(s) == SplitAcc(s, <<>>, <<>>)

RECURSIVE join(_)
\* ' '.join(words)
join(words) ==
    IF words = <<>> THEN <<>>
    ELSE IF Len(words) = 1 THEN words[1]
    ELSE words[1] \o <<Space>> \o join(Tail(words))

\* str.strip() applied to a text: not text.strip() is "no non-space character"
IsBlank(s) == \A i \in 1..Len(s) : IsSpace(s[i])

\* needle in haystack, for strings
Contains(hay, needle) ==
    \E i \in 0..(Len(hay) - Len(needle)) :
        \A j \in 1..Len(needle) : hay[i + j] = needle[j]

---------------------------------------------------------------------------
(* Text normalisation: BaseTextVectorizer.preprocess_text *)

\* the stopwords of the table that the texts of the model can contain
PORTUGUESE_STOPWORDS ==
    { <<"a">>, <<"e">>, <<"o">>,
      <<"d", "e">>, <<"d", "a">>, <<"d", "o">>, <<"e", "m">>,
      <<"c", "o", "m">>, <<"q", "u", "e">>, <<"p", "a", "r", "a">> }

\* the entries of the expansion table that the texts of the model can contain
TECHNICAL_EXPANSIONS ==
    ( <<"t", "i">> :>
        <<"t", "e", "c", "n", "o", "l", "o", "g", "i", "a", " ", "d", "a", " ",
          "i", "n", "f", "o", "r", "m", "a", "c,", "a~", "o">> )
    @@ ( <<"h", "d">> :>
        <<"d", "i", "s", "c", "o", " ", "r", "i'", "g", "i", "d", "o">> )
    @@ ( <<"l", "a", "n">> :>
        <<"r", "e", "d", "e", " ", "l", "o", "c", "a", "l">> )
    @@ ( <<"i", "p">> :>
        <<"i", "n", "t", "e", "r", "n", "e", "t", " ",
          "p", "r", "o", "t", "o", "c", "o", "l">> )

\* re.sub(r'[^\w]', '', word)
clean_word(word) == SelectSeq(word, IsWordChar)

\* lines 100-109: each word whose cleaned form is a key of the table is
\* replaced by its expansion
expand_word(word) ==
    IF clean_word(word) \in DOMAIN TECHNICAL_EXPANSIONS
    THEN TECHNICAL_EXPANSIONS[clean_word(word)]
    ELSE word

expand_words(words) == [i \in 1..Len(words) |-> expand_word(words[i])]

\* re.sub(r'[^\w\s]', ' ', text)
strip_punctuation(s) ==
    [i \in 1..Len(s) |-> IF IsWordChar(s[i]) \/ IsSpace(s[i]) THEN s[i] ELSE Space]

IsNumber(word) == word # <<>> /\ \A i \in 1..Len(word) : word[i] \in Digits

\* re.sub(r'\b\d+\b', '', text) followed by split(): once the punctuation
\* is gone a run of digits between word boundaries is a whole word
remove_numbers(words) == SelectSeq(words, LAMBDA w : ~IsNumber(w))

\* line 119
KeepWord(word) == word \notin PORTUGUESE_STOPWORDS /\ Len(word) > 2

filter_words(words) == SelectSeq(words, KeepWord)

preprocess_text(text) ==
    IF text = <<>> THEN <<>>
    ELSE LET t1 == unidecode(lower(text))
             t2 == join(expand_words(split(t1)))
             t3 == strip_punctuation(t2)
             w4 == remove_numbers(split(t3))
         IN  join(filter_words(w4))

---------------------------------------------------------------------------
(* Fixed-point scores *)

\* the float x of the code is the integer x * SCALE
SCALE == 100 * 120

Hundredths(n) == n * (SCALE \div 100)

Min(a, b) == IF a <= b THEN a ELSE b

---------------------------------------------------------------------------
(* Similarity: calculate_cosine_similarity, calculate_enhanced_similarity *)

RECURSIVE SumSeq(_)
SumSeq(s) == IF s = <<>> THEN 0 ELSE Head(s) + SumSeq(Tail(s))

\* np.dot(v1, v2)
dot(v1, v2) == SumSeq([i \in 1..Len(v1) |-> v1[i] * v2[i]])

ISqrt(n) == CHOOSE r \in 0..n : r * r <= n /\ n < (r + 1) * (r + 1)

\* np.linalg.norm(v); the vectors of the model have whole norms
norm(v) == ISqrt(dot(v, v))

calculate_cosine_similarity(vec1, vec2) ==
    IF vec1 = <<>> \/ vec2 = <<>> \/ Len(vec1) # Len(vec2) THEN 0
    ELSE IF norm(vec1) = 0 \/ norm(vec2) = 0 THEN 0
    ELSE (dot(vec1, vec2) * SCALE) \div (norm(vec1) * norm(vec2))

SeqToSet(s) == {s[i] : i \in 1..Len(s)}

\* lines 454-456: the words the two lower-cased texts share
common_words(text1, text2) ==
    SeqToSet(split(lower(text1))) \cap SeqToSet(split(lower(text2)))

\* line 464
tech_terms ==
    << <<"t", "i">>, <<"t", "i", "c">>, <<"c", "p", "u">>, <<"g", "p", "s">>,
       <<"l", "e", "d">>, <<"u", "s", "b">>, <<"w", "i", "f", "i">>,
       <<"c", "f", "t", "v">>, <<"a", "p", "i">>, <<"e", "r", "p">> >>

\* line 465: the terms found in both lower-cased texts (a substring test)
common_tech(text1, text2) ==
    SelectSeq(tech_terms,
              LAMBDA term : Contains(lower(text1), term) /\ Contains(lower(text2), term))

\* line 459, 0 when there is no common word
word_bonus(text1, text2) ==
    IF text1 # <<>> /\ text2 # <<>> /\ common_words(text1, text2) # {}
    THEN Min(Cardinality(common_words(text1, text2)) * Hundredths(5), Hundredths(20))
    ELSE 0

\* line 467, 0 when there is no common term
tech_bonus(text1, text2) ==
    IF text1 # <<>> /\ text2 # <<>> /\ common_tech(text1, text2) # <<>>
    THEN Min(Len(common_tech(text1, text2)) * Hundredths(3), Hundredths(10))
    ELSE 0

\* line 472: the only clamp of the function
final_score(cosine_score) == Min(cosine_score, SCALE)

\* the score of the returned pair (score, justificativa)
calculate_enhanced_similarity(vec1, vec2, text1, text2) ==
    final_score(calculate_cosine_similarity(vec1, vec2)
                + word_bonus(text1, text2) + tech_bonus(text1, text2))

---------------------------------------------------------------------------
(* Embedding backends: vectorizers.py *)

\* what a call hands to its caller: a list, or an exception
Return(value) == [raised |-> FALSE, value |-> value]
Raise == [raised |-> TRUE, value |-> <<>>]

\* The remote model and the local model are functions of the submitted
\* text, unknown to the program.  The model fixes one vector for each
\* normalised text its corpus can produce, of dimension 2 for the remote
\* model and 3 for the local one (3072 and 384 in production).
T_rede == <<"r", "e", "d", "e">>
T_obra == <<"o", "b", "r", "a">>
T_obra_rede == <<"o", "b", "r", "a", " ", "r", "e", "d", "e">>

OpenAIEmbedding(clean_text) ==
    CASE clean_text = T_rede -> <<1, 0>>
      [] clean_text = T_obra -> <<3, 4>>
      [] clean_text = T_obra_rede -> <<4, 3>>
      [] OTHER -> <<-1, 0>>

STEmbedding(clean_text) ==
    CASE clean_text = T_rede -> <<1, 0, 0>>
      [] clean_text = T_obra -> <<3, 4, 0>>
      [] clean_text = T_obra_rede -> <<4, 3, 0>>
      [] OTHER -> <<0, 0, 1>>

\* how one HTTP request to the embeddings API ends:
\*   "ok"            a 2xx response carrying one embedding per input
\*   "request_error" a requests.exceptions.RequestException (transport
\*                   failure, timeout, non-2xx status)
\*   "malformed"     a 2xx response whose body lacks data[i].embedding
\*                   (KeyError, IndexError: not a RequestException)
ApiOutcomes == {"ok", "request_error", "malformed"}

\* how one call of SentenceTransformer.encode ends
EncodeOutcomes == {"ok", "error"}

\* lines 189-197 and 270-278: the texts that are submitted, in order; a
\* text that is blank or normalises to nothing is left out
clean_texts(texts) ==
    LET kept == SelectSeq(texts, LAMBDA t : ~IsBlank(t) /\ preprocess_text(t) # <<>>)
    IN  [i \in 1..Len(kept) |-> preprocess_text(kept[i])]

OpenAI_vectorize(text, api) ==
    IF IsBlank(text) THEN Return(<<>>)
    ELSE IF preprocess_text(text) = <<>> THEN Return(<<>>)
    ELSE CASE api = "ok" -> Return(OpenAIEmbedding(preprocess_text(text)))
           [] api = "request_error" -> Return(<<>>)
           [] OTHER -> Raise

OpenAI_batch_vectorize(texts, api) ==
    IF texts = <<>> THEN Return(<<>>)
    ELSE IF clean_texts(texts) = <<>> THEN Return(<<>>)
    ELSE CASE api = "ok" ->
                Return([i \in 1..Len(clean_texts(texts)) |->
                            OpenAIEmbedding(clean_texts(texts)[i])])
           [] api = "request_error" -> Return(<<>>)
           [] OTHER -> Raise

ST_vectorize(text, enc) ==
    IF IsBlank(text) THEN Return(<<>>)
    ELSE IF preprocess_text(text) = <<>> THEN Return(<<>>)
    ELSE IF enc = "ok" THEN Return(STEmbedding(preprocess_text(text)))
    ELSE Return(<<>>)

ST_batch_vectorize(texts, enc) ==
    IF texts = <<>> THEN Return(<<>>)
    ELSE IF clean_texts(texts) = <<>> THEN Return(<<>>)
    ELSE IF enc = "ok"
         THEN Return([i \in 1..Len(clean_texts(texts)) |->
                          STEmbedding(clean_texts(texts)[i])])
         ELSE Return(<<>>)

\* Hybrid vectorize without the try/except around the primary call
Hybrid_vectorize_uncaught(use_openai, text, api, enc) ==
    IF use_openai /\ OpenAI_vectorize(text, api).raised THEN Raise
    ELSE IF use_openai /\ OpenAI_vectorize(text, api).value # <<>>
    THEN OpenAI_vectorize(text, api)
    ELSE ST_vectorize(text, enc)

\* Hybrid vectorize that returns whatever the primary answers when the
\* primary is in use
Hybrid_vectorize_primary_only(use_openai, text, api, enc) ==
    IF use_openai /\ ~OpenAI_vectorize(text, api).raised
    THEN OpenAI_vectorize(text, api)
    ELSE ST_vectorize(text, enc)

\* lines 319-328; use_openai is the flag set by the constructor
Hybrid_vectorize(use_openai, text, api, enc) ==
    IF use_openai /\ ~OpenAI_vectorize(text, api).raised
                  /\ OpenAI_vectorize(text, api).value # <<>>
    THEN OpenAI_vectorize(text, api)
    ELSE ST_vectorize(text, enc)

\* lines 330-339
Hybrid_batch_vectorize(use_openai, texts, api, enc) ==
    IF use_openai /\ ~OpenAI_batch_vectorize(texts, api).raised
                  /\ OpenAI_batch_vectorize(texts, api).value # <<>>
    THEN OpenAI_batch_vectorize(texts, api)
    ELSE ST_batch_vectorize(texts, enc)

\* lines 350-386: the seven categories, in order, each with those of its
\* keywords that the texts of the model can contain, and the length of its
\* keyword list in the source
MockCategories ==
    << [keywords |-> {<<"t", "i">>, <<"t", "i", "c">>}, len |-> 32],  \* informatica
       [keywords |-> {}, len |-> 15],                                  \* impressao
       [keywords |-> {T_rede}, len |-> 20],                            \* rede
       [keywords |-> {}, len |-> 11],                                  \* moveis
       [keywords |-> {T_obra}, len |-> 11],                            \* construcao
       [keywords |-> {}, len |-> 9],                                   \* seguranca
       [keywords |-> {}, len |-> 8] >>                                 \* veiculo

\* lines 395-407 for one category
MockScore(category, text_processed) ==
    Min((Cardinality({k \in category.keywords : Contains(text_processed, k)}) * SCALE)
            \div category.len,
        SCALE)

Mock_vectorize(text) ==
    IF text = <<>> THEN Return([i \in 1..Len(MockCategories) |-> 0])
    ELSE Return([i \in 1..Len(MockCategories) |->
                     MockScore(MockCategories[i], preprocess_text(text))])

Mock_batch_vectorize(texts) ==
    Return([i \in 1..Len(texts) |-> Mock_vectorize(texts[i]).value])

VectorizerTypes == {"openai", "sentence_transformers", "hybrid", "hybrid_no_key", "mock"}

\* vectorizer.vectorize(text) of a vectorizer built by create_vectorizer;
\* "hybrid_no_key" is the hybrid built without OPENAI_API_KEY
vectorize(vectorizer_type, text, api, enc) ==
    CASE vectorizer_type = "openai" -> OpenAI_vectorize(text, api)
      [] vectorizer_type = "sentence_transformers" -> ST_vectorize(text, enc)
      [] vectorizer_type = "hybrid" -> Hybrid_vectorize(TRUE, text, api, enc)
      [] vectorizer_type = "hybrid_no_key" -> Hybrid_vectorize(FALSE, text, api, enc)
      [] OTHER -> Mock_vectorize(text)

batch_vectorize(vectorizer_type, texts, api, enc) ==
    CASE vectorizer_type = "openai" -> OpenAI_batch_vectorize(texts, api)
      [] vectorizer_type = "sentence_transformers" -> ST_batch_vectorize(texts, enc)
      [] vectorizer_type = "hybrid" -> Hybrid_batch_vectorize(TRUE, texts, api, enc)
      [] vectorizer_type = "hybrid_no_key" -> Hybrid_batch_vectorize(FALSE, texts, api, enc)
      [] OTHER -> Mock_batch_vectorize(texts)

---------------------------------------------------------------------------
(* The corpus of the runs *)

T_blank == <<>>
T_space == <<Space>>
T_de == <<"d", "e">>
T_de_obra == <<"d", "e", " ", "o", "b", "r", "a">>
T_de_rede == <<"d", "e", " ", "r", "e", "d", "e">>

\* the bids PNCP can publish: pncp_id -> object text and item descriptions
BidCatalogue ==
    << [objetoCompra |-> T_de_obra, items |-> <<>>],
       [objetoCompra |-> T_de_obra, items |-> <<T_obra>>],
       [objetoCompra |-> T_rede, items |-> <<T_de, T_rede, T_obra_rede>>],
       [objetoCompra |-> T_de, items |-> <<>>],
       [objetoCompra |-> T_blank, items |-> <<>>] >>

PncpIds == 1..Len(BidCatalogue)

\* the descriptions a registered company can have
CompanyDescriptions == {T_de_rede, T_de, T_obra_rede}

\* the sequences over S of length lo..hi
SeqsBetween(S, lo, hi) == UNION {[1..n -> S] : n \in lo..hi}

IsSorted(s) == \A a, b \in 1..Len(s) : a < b => s[a] <= s[b]

\* what PNCP can publish on one day: the bids are handled one by one, so
\* the feeds are taken in the order of their ids; a bid can come twice
Feeds == {s \in SeqsBetween(PncpIds, 0, MaxBids) : IsSorted(s)}

\* the bids the store can hold before the run, oldest first: a bid with no
\* object text is never saved
StoredBefore == {<<>>, <<1, 2>>, <<3, 4>>}

---------------------------------------------------------------------------
(* Configuration: matching_engine.py lines 26-27 *)

SIMILARITY_THRESHOLD_PHASE1 == Hundredths(65)
SIMILARITY_THRESHOLD_PHASE2 == Hundredths(70)

---------------------------------------------------------------------------
(* The database: pncp_api.py *)

\* get_all_companies_from_db: id is the row's position
get_all_companies_from_db ==
    [c \in 1..Len(empresas) |-> [id |-> c, descricao_servicos_produtos |-> empresas[c]]]

\* get_processed_bid_ids
get_processed_bid_ids == {licitacoes[k].pncp_id : k \in 1..Len(licitacoes)}

\* get_existing_bids_from_db: ORDER BY created_at DESC
get_existing_bids_from_db ==
    [k \in 1..Len(licitacoes) |-> licitacoes[Len(licitacoes) + 1 - k].pncp_id]

\* get_bid_items_from_db
get_bid_items_from_db(pncp_id) == licitacao_itens[pncp_id]

\* save_bid_to_db: INSERT ... ON CONFLICT (pncp_id) DO UPDATE SET updated_at
save_bid_to_db(table, pncp_id) ==
    IF \E k \in 1..Len(table) : table[k].pncp_id = pncp_id
    THEN table
    ELSE Append(table, [pncp_id |-> pncp_id, status |-> "coletada"])

\* save_bid_items_to_db: INSERT ... ON CONFLICT DO NOTHING
save_bid_items_to_db(table, pncp_id, its) ==
    IF its = <<>> THEN table
    ELSE [table EXCEPT ![pncp_id] =
            IF Len(@) >= Len(its) THEN @ ELSE @ \o SubSeq(its, Len(@) + 1, Len(its))]

\* update_bid_status
update_bid_status(table, pncp_id, status) ==
    [k \in 1..Len(table) |->
        IF table[k].pncp_id = pncp_id THEN [table[k] EXCEPT !.status = status]
        ELSE table[k]]

\* the row save_match_to_db inserts; score_fase1 is the phase-1 score that
\* the justification of the row reports
MatchRow(pncp_id, empresa_id, score, match_type, score_fase1) ==
    [licitacao_id |-> pncp_id, empresa_id |-> empresa_id, score |-> score,
     match_type |-> match_type, score_fase1 |-> score_fase1, data_match |-> "run"]

\* variant of the saving: a stored row of the same bid and company is
\* replaced by the new one
save_matches_replacing(table, rows) ==
    SelectSeq(table, LAMBDA old : \A n \in 1..Len(rows) :
                  ~(/\ rows[n].licitacao_id = old.licitacao_id
                    /\ rows[n].empresa_id = old.empresa_id))
    \o rows

\* save_match_to_db called for each row in turn: INSERT INTO matches
save_matches_to_db(table, rows) == table \o rows

\* variant: the rows stay
clear_existing_matches_none(table) == table

\* clear_existing_matches: DELETE FROM matches
clear_existing_matches(table) == <<>>

---------------------------------------------------------------------------
(* The two-phase algorithm: matching_engine.py *)

\* the outcomes a backend call of the run can have: a run has at most
\* MaxFaults calls that fail
ApiOutcomesNow ==
    IF faults < MaxFaults /\ vectorizer \in {"openai", "hybrid"}
    THEN ApiOutcomes ELSE {"ok"}
EncodeOutcomesNow ==
    IF faults < MaxFaults /\ vectorizer \in {"sentence_transformers", "hybrid"}
    THEN EncodeOutcomes ELSE {"ok"}
Failed(api, enc) == IF api # "ok" \/ enc # "ok" THEN 1 ELSE 0

\* lines 56-60 (267-275): the i-th company gets the i-th returned
\* embedding, or [] when the list is shorter (a company that got no
\* embedding because the call raised reads as one with [])
attach_embeddings(comps, company_embeddings) ==
    [c \in 1..Len(comps) |->
        [id |-> comps[c].id,
         descricao_servicos_produtos |-> comps[c].descricao_servicos_produtos,
         embedding |-> IF c <= Len(company_embeddings) THEN company_embeddings[c] ELSE <<>>]]

\* lines 64-89: the fetched bids that the store does not hold yet
new_bids(feed) == SelectSeq(feed, LAMBDA id : id \notin get_processed_bid_ids)

\* variants of the comparisons below: a strict phase-1 comparison, no
\* phase-1 comparison, no phase-2 comparison, phase 2 whatever the items
PassesPhase1_strict(score) == score > Hundredths(65)
PassesPhase1_any(score) == TRUE
PassesPhase2_any(item_score) == TRUE
HasItems_always(its) == TRUE

\* line 159 (341)
PassesPhase1(score) == score >= SIMILARITY_THRESHOLD_PHASE1

\* line 168 (353)
HasItems(its) == its # <<>>

\* line 197 (382)
PassesPhase2(item_score) == item_score >= SIMILARITY_THRESHOLD_PHASE2

\* variant of phase 1: the candidates are collected last company first
phase1_reversed(embedding, objeto_compra, comps) ==
    LET score(c) == calculate_enhanced_similarity(embedding, comps[c].embedding,
                        objeto_compra, comps[c].descricao_servicos_produtos)
        scored == SelectSeq([c \in 1..Len(comps) |-> Len(comps) + 1 - c],
                            LAMBDA c : comps[c].embedding # <<>>)
        passed == SelectSeq(scored, LAMBDA c : PassesPhase1(score(c)))
    IN  [k \in 1..Len(passed) |-> [company |-> comps[passed[k]], score |-> score(passed[k])]]

\* lines 143-161 (325-343): the candidates, in the order of the companies
phase1(embedding, objeto_compra, comps) ==
    LET score(c) == calculate_enhanced_similarity(embedding, comps[c].embedding,
                        objeto_compra, comps[c].descricao_servicos_produtos)
        scored == SelectSeq([c \in 1..Len(comps) |-> c],
                            LAMBDA c : comps[c].embedding # <<>>)
        passed == SelectSeq(scored, LAMBDA c : PassesPhase1(score(c)))
    IN  [k \in 1..Len(passed) |-> [company |-> comps[passed[k]], score |-> score(passed[k])]]

\* lines 180-203 (365-388): the scores of the items that qualify for one
\* company, in the order of the embeddings
qualifying_item_scores(company, item_descriptions, embeddings) ==
    LET item_score(idx) ==
            calculate_enhanced_similarity(embeddings[idx], company.embedding,
                item_descriptions[idx], company.descricao_servicos_produtos)
        scored == SelectSeq([idx \in 1..Len(embeddings) |-> idx],
                            LAMBDA idx : embeddings[idx] # <<>>)
        passed == SelectSeq(scored, LAMBDA idx : PassesPhase2(item_score(idx)))
    IN  [k \in 1..Len(passed) |-> item_score(passed[k])]

\* line 205 (390)
HasItemMatches(item_scores) == Len(item_scores) > 0

\* variant of the final score: the mean of the items is halved alone
phase2_final_score_unhalved(score_fase1, item_scores) ==
    score_fase1 + ((SumSeq(item_scores) \div Len(item_scores)) \div 2)

\* line 206 (391)
phase2_final_score(score_fase1, item_scores) ==
    (score_fase1 + (SumSeq(item_scores) \div Len(item_scores))) \div 2

\* lines 173-218 (358-403): the rows saved for the candidates, in order
phase2_rows(pncp_id, candidates, item_descriptions, embeddings) ==
    LET scores(k) == qualifying_item_scores(candidates[k].company,
                                            item_descriptions, embeddings)
        saved == SelectSeq([k \in 1..Len(candidates) |-> k],
                           LAMBDA k : HasItemMatches(scores(k)))
    IN  [n \in 1..Len(saved) |->
            MatchRow(pncp_id, candidates[saved[n]].company.id,
                     phase2_final_score(candidates[saved[n]].score, scores(saved[n])),
                     "objeto_e_itens", candidates[saved[n]].score)]

\* lines 222-227 (407-412)
phase1_only_rows(pncp_id, candidates) ==
    [k \in 1..Len(candidates) |->
        MatchRow(pncp_id, candidates[k].company.id, candidates[k].score,
                 "objeto_completo", candidates[k].score)]

NoStatistics ==
    [total_processadas |-> 0, com_matches |-> 0, sem_matches |-> 0,
     matches_fase1_apenas |-> 0, matches_fase2 |-> 0, vetorizacao_falhou |-> 0]

\* the run's local variables before the first bid
NoBid == /\ items = <<>>
         /\ bid_embedding = <<>>
         /\ potential_matches = <<>>
         /\ item_embeddings = <<>>

\* a request body without keys
NoConfig == [key \in {} |-> 0]

\* api.py lines 37-44: the two kinds of background process
Kinds == {"daily_bids", "reevaluate"}

NoRun ==
    /\ config = NoConfig
    /\ matching_attributes = NoConfig
    /\ process_status = [kind \in Kinds |-> [running |-> FALSE, last_result |-> "None"]]
    /\ threads = <<>>
    /\ pc = "idle"
    /\ run = "none"
    /\ clear_matches = FALSE
    /\ vectorizer = "none"
    /\ faults = 0
    /\ companies = <<>>
    /\ bids = <<>>
    /\ bid_index = 0
    /\ NoBid
    /\ estatisticas = NoStatistics
    /\ matches_encontrados = 0

EmptyDatabase ==
    /\ empresas = <<>>
    /\ licitacoes = <<>>
    /\ licitacao_itens = [id \in PncpIds |-> <<>>]
    /\ matches = <<>>

\* the vectorizers the runs of the model are given
RunVectorizers == {"openai", "hybrid"}

\* the status an earlier daily run left a stored bid with: "processada"
\* at the end of the loop body (line 233), and the "coletada" of
\* save_bid_to_db when the body was left before (bid 4 never gets an
\* embedding, bid 3 had none when the request failed)
StoredStatus(id) == IF id \in {3, 4} THEN "coletada" ELSE "processada"

\* A database as earlier runs leave it: registered companies, stored bids
\* with their items, and one match of the first stored bid.
Init ==
    /\ h_op = "off" /\ h_in = <<>> /\ h_out = <<>>
    /\ empresas \in SeqsBetween(CompanyDescriptions, 0, MaxCompanies)
    /\ \E stored \in StoredBefore :
         /\ licitacoes = [k \in 1..Len(stored) |->
                             [pncp_id |-> stored[k], status |-> StoredStatus(stored[k])]]
         /\ licitacao_itens = [id \in PncpIds |->
                                 IF \E k \in 1..Len(stored) : stored[k] = id
                                 THEN BidCatalogue[id].items ELSE <<>>]
         /\ matches = IF stored = <<>> THEN <<>>
                      ELSE <<[MatchRow(stored[1], 1, SCALE, "objeto_completo", SCALE)
                                EXCEPT !.data_match = "before"]>>
    /\ NoRun

\* the outcomes that the backend vt can have at the first call of a run
Relevant(vt, api, enc) ==
    /\ MaxFaults = 0 => (api = "ok" /\ enc = "ok")
    /\ vt = "openai" => enc = "ok"
    /\ vt = "sentence_transformers" => api = "ok"

\* lines 45-60 and 253-275: the run loads the companies and embeds their
\* descriptions with one batch call
LoadCompanies(kind, vt, api, enc) ==
    LET comps == get_all_companies_from_db
        texts == [c \in 1..Len(comps) |-> comps[c].descricao_servicos_produtos]
    IN  /\ run' = kind
        /\ vectorizer' = vt
        /\ IF comps = <<>>
           THEN /\ pc' = "done"
                /\ faults' = 0
                /\ companies' = <<>>
           ELSE \E embedded \in {batch_vectorize(vt, texts, api, enc)} :
                /\ faults' = Failed(api, enc)
                /\ IF embedded.raised
                   THEN /\ pc' = "raised"
                        /\ companies' = attach_embeddings(comps, <<>>)
                   ELSE /\ pc' = "fetch"
                        /\ companies' = attach_embeddings(comps, embedded.value)

\* process_daily_bids(vectorizer), lines 30-60
process_daily_bids(vt) ==
    /\ pc = "idle"
    /\ \E api \in ApiOutcomes, enc \in EncodeOutcomes :
         /\ Relevant(vt, api, enc)
         /\ LoadCompanies("daily", vt, api, enc)
    /\ clear_matches' = FALSE
    /\ UNCHANGED <<hvars, dbvars, bids, bid_index, items, bid_embedding,
                   potential_matches, item_embeddings, estatisticas,
                   matches_encontrados>>

\* a run of process_daily_bids called with a vectorizer
StartDaily ==
    /\ \E vt \in RunVectorizers : process_daily_bids(vt)
    /\ UNCHANGED apivars

\* reevaluate_existing_bids(vectorizer, clear_matches), lines 242-275
reevaluate_existing_bids(vt, clear) ==
    /\ pc = "idle"
    /\ \E api \in ApiOutcomes, enc \in EncodeOutcomes :
         /\ Relevant(vt, api, enc)
         /\ clear_matches' = clear
         /\ matches' = IF clear THEN clear_existing_matches(matches) ELSE matches
         /\ LoadCompanies("reevaluate", vt, api, enc)
    /\ UNCHANGED <<hvars, empresas, licitacoes, licitacao_itens, bids, bid_index,
                   items, bid_embedding, potential_matches, item_embeddings,
                   estatisticas, matches_encontrados>>

\* a run of reevaluate_existing_bids called with a vectorizer
StartReevaluate ==
    /\ \E vt \in RunVectorizers, clear \in BOOLEAN : reevaluate_existing_bids(vt, clear)
    /\ UNCHANGED apivars

\* lines 102-111 (287-298): the run starts the loop over its bids, or
\* returns when there is none
StartLoop(bids_of_run) ==
    /\ bids' = bids_of_run
    /\ bid_index' = 1
    /\ estatisticas' = NoStatistics
    /\ matches_encontrados' = 0
    /\ pc' = IF bids_of_run = <<>> THEN "done" ELSE "bid"

\* process_daily_bids, lines 62-109; feed is what PNCP publishes today
FetchBids ==
    /\ pc = "fetch"
    /\ run = "daily"
    /\ \E feed \in Feeds : StartLoop(new_bids(feed))
    /\ UNCHANGED <<hvars, apivars, dbvars, run, clear_matches, vectorizer, faults, companies, items,
                   bid_embedding, potential_matches, item_embeddings>>

\* reevaluate_existing_bids, lines 277-296
LoadExistingBids ==
    /\ pc = "fetch"
    /\ run = "reevaluate"
    /\ StartLoop(get_existing_bids_from_db)
    /\ UNCHANGED <<hvars, apivars, dbvars, run, clear_matches, vectorizer, faults, companies, items,
                   bid_embedding, potential_matches, item_embeddings>>

\* the bid the loop is at
pncp_id == bids[bid_index]
objeto_compra == BidCatalogue[pncp_id].objetoCompra

\* fetch_bid_items_from_pncp: the items of the bid, or none when the
\* request fails
ItemsFetched == {BidCatalogue[pncp_id].items, <<>>}
ItemsFailed(fetched) == IF fetched # BidCatalogue[pncp_id].items THEN 1 ELSE 0

\* the loop moves to the next bid, or to the final report
NextBid ==
    /\ bid_index' = bid_index + 1
    /\ pc' = IF bid_index < Len(bids) THEN "bid" ELSE "report"

\* lines 111-137 (298-319): the head of the loop body.  The daily run
\* saves the bid and fetches and saves its items (an item request that
\* fails yields no items); both runs embed the object text.
EmbedBid ==
    /\ pc = "bid"
    /\ IF objeto_compra = <<>>
       THEN /\ NextBid
            /\ UNCHANGED <<licitacoes, licitacao_itens, items, bid_embedding,
                           estatisticas, faults>>
       ELSE \E api \in ApiOutcomesNow, enc \in EncodeOutcomesNow,
               fetched \in ItemsFetched :
            \E embedded \in {vectorize(vectorizer, objeto_compra, api, enc)} :
                /\ faults + Failed(api, enc) + ItemsFailed(fetched) <= MaxFaults
                /\ faults' = faults + Failed(api, enc) + ItemsFailed(fetched)
                /\ IF run = "daily"
                   THEN /\ licitacoes' = save_bid_to_db(licitacoes, pncp_id)
                        /\ licitacao_itens' =
                               save_bid_items_to_db(licitacao_itens, pncp_id, fetched)
                        /\ items' = fetched
                   ELSE /\ fetched = BidCatalogue[pncp_id].items
                        /\ UNCHANGED <<licitacoes, licitacao_itens>>
                        /\ items' = <<>>
                /\ bid_embedding' = embedded.value
                /\ CASE embedded.raised ->
                          /\ pc' = "raised"
                          /\ UNCHANGED <<bid_index, estatisticas>>
                     [] ~embedded.raised /\ embedded.value = <<>> ->
                          /\ NextBid
                          /\ estatisticas' =
                               IF run = "reevaluate"
                               THEN [estatisticas EXCEPT !.vetorizacao_falhou = @ + 1]
                               ELSE estatisticas
                     [] OTHER ->
                          /\ pc' = "phase1"
                          /\ estatisticas' =
                               [estatisticas EXCEPT !.total_processadas = @ + 1]
                          /\ UNCHANGED bid_index
    /\ potential_matches' = <<>>
    /\ item_embeddings' = <<>>
    /\ UNCHANGED <<hvars, apivars, empresas, matches, run, clear_matches,
                   vectorizer, companies, bids,
                   matches_encontrados>>

\* lines 139-166 and 228-230 (321-351 and 413-415): phase 1 over all the
\* companies; the re-evaluation reads the items once there is a candidate
Phase1 ==
    /\ pc = "phase1"
    /\ potential_matches' = phase1(bid_embedding, objeto_compra, companies)
    /\ IF potential_matches' # <<>>
       THEN /\ estatisticas' = [estatisticas EXCEPT !.com_matches = @ + 1]
            /\ items' = IF run = "reevaluate" THEN get_bid_items_from_db(pncp_id)
                        ELSE items
            /\ pc' = IF HasItems(items') THEN "phase2" ELSE "phase1_only"
       ELSE /\ estatisticas' = [estatisticas EXCEPT !.sem_matches = @ + 1]
            /\ pc' = "record"
            /\ UNCHANGED items
    /\ UNCHANGED <<hvars, apivars, dbvars, run, clear_matches, vectorizer, faults, companies, bids, bid_index,
                   bid_embedding, item_embeddings, matches_encontrados>>

\* lines 168-218 (353-403): phase 2 for every candidate
Phase2 ==
    /\ pc = "phase2"
    /\ \E api \in ApiOutcomesNow, enc \in EncodeOutcomesNow :
         LET embedded == batch_vectorize(vectorizer, items, api, enc)
             rows == phase2_rows(pncp_id, potential_matches, items, embedded.value)
         IN  /\ faults' = faults + Failed(api, enc)
             /\ item_embeddings' = embedded.value
             /\ IF embedded.raised
                THEN /\ pc' = "raised"
                     /\ UNCHANGED <<matches, matches_encontrados, estatisticas>>
                ELSE /\ pc' = "record"
                     /\ matches' = save_matches_to_db(matches, rows)
                     /\ matches_encontrados' = matches_encontrados + Len(rows)
                     /\ estatisticas' =
                            [estatisticas EXCEPT !.matches_fase2 = @ + Len(rows)]
    /\ UNCHANGED <<hvars, apivars, empresas, licitacoes, licitacao_itens, run,
                   clear_matches, vectorizer,
                   companies, bids, bid_index, items, bid_embedding, potential_matches>>

\* lines 219-227 (404-412): a bid without items
Phase1Only ==
    /\ pc = "phase1_only"
    /\ LET rows == phase1_only_rows(pncp_id, potential_matches)
       IN  /\ matches' = save_matches_to_db(matches, rows)
           /\ matches_encontrados' = matches_encontrados + Len(rows)
           /\ estatisticas' =
                  [estatisticas EXCEPT !.matches_fase1_apenas = @ + Len(rows)]
    /\ pc' = "record"
    /\ UNCHANGED <<hvars, apivars, empresas, licitacoes, licitacao_itens, run,
                   clear_matches, vectorizer,
                   faults, companies, bids, bid_index, items, bid_embedding,
                   potential_matches, item_embeddings>>

\* lines 232-236 (417): the end of the loop body; only the daily run
\* updates the status of the bid
RecordBid ==
    /\ pc = "record"
    /\ licitacoes' = IF run = "daily"
                     THEN update_bid_status(licitacoes, pncp_id, "processada")
                     ELSE licitacoes
    /\ NextBid
    /\ UNCHANGED <<hvars, apivars, empresas, licitacao_itens, matches, run, clear_matches,
                   vectorizer,
                   faults, companies, bids, items, bid_embedding, potential_matches,
                   item_embeddings, estatisticas, matches_encontrados>>

\* lines 238-239 (419-423)
FinalReport ==
    /\ pc = "report"
    /\ pc' = "done"
    /\ UNCHANGED <<hvars, apivars, dbvars, run, clear_matches, vectorizer, faults, companies, bids, bid_index,
                   items, bid_embedding, potential_matches, item_embeddings,
                   estatisticas, matches_encontrados>>

Next ==
    \/ StartDaily
    \/ StartReevaluate
    \/ FetchBids
    \/ LoadExistingBids
    \/ EmbedBid
    \/ Phase1
    \/ Phase2
    \/ Phase1Only
    \/ RecordBid
    \/ FinalReport

Spec == Init /\ [][Next]_vars

---------------------------------------------------------------------------
(* The run endpoints: api.py *)

\* the request bodies the endpoints are given
Configs ==
    { NoConfig,
      [similarity_threshold_phase1 |-> Hundredths(90)],
      [similarity_threshold_phase1 |-> Hundredths(50),
       similarity_threshold_phase2 |-> Hundredths(60),
       max_pages |-> 1, vectorizer_type |-> "openai", clear_matches |-> FALSE] }

\* config.get(key, default)
get(cfg, key, default) == IF key \in DOMAIN cfg THEN cfg[key] ELSE default

\* create_vectorizer, lines 46-69: an unknown type gives the hybrid one
create_vectorizer(vectorizer_type) ==
    IF vectorizer_type \in VectorizerTypes THEN vectorizer_type ELSE "hybrid"

\* update_similarity_thresholds, lines 71-87: every key of the body that is
\* recognised is assigned to an attribute of the package matching
update_similarity_thresholds(attributes, cfg) ==
    LET assigned ==
            {<<"similarity_threshold_phase1", "SIMILARITY_THRESHOLD_PHASE1">>,
             <<"similarity_threshold_phase2", "SIMILARITY_THRESHOLD_PHASE2">>,
             <<"max_pages", "PNCP_MAX_PAGES">>}
        set == {a \in assigned : a[1] \in DOMAIN cfg}
        key_of(name) == (CHOOSE a \in set : a[2] = name)[1]
    IN  [name \in DOMAIN attributes \cup {a[2] : a \in set} |->
            IF \E a \in set : a[2] = name THEN cfg[key_of(name)] ELSE attributes[name]]

\* search_new_bids.run_process, lines 524-553
search_new_bids ==
    \E cfg \in Configs :
        /\ config' = cfg
        /\ matching_attributes' = update_similarity_thresholds(matching_attributes, cfg)
        /\ process_daily_bids(create_vectorizer(get(cfg, "vectorizer_type", "hybrid")))
        /\ UNCHANGED <<process_status, threads>>

\* reevaluate_bids.run_process, lines 583-631
reevaluate_bids ==
    \E cfg \in Configs :
        /\ config' = cfg
        /\ matching_attributes' = update_similarity_thresholds(matching_attributes, cfg)
        /\ reevaluate_existing_bids(
               create_vectorizer(get(cfg, "vectorizer_type", "hybrid")),
               get(cfg, "clear_matches", TRUE))
        /\ UNCHANGED <<process_status, threads>>

NextApi ==
    \/ search_new_bids
    \/ reevaluate_bids
    \/ FetchBids
    \/ LoadExistingBids
    \/ EmbedBid
    \/ Phase1
    \/ Phase2
    \/ Phase1Only
    \/ RecordBid
    \/ FinalReport

SpecApi == Init /\ [][NextApi]_vars

---------------------------------------------------------------------------
(* The status of the background processes: api.py lines 37-44, 510-637 *)

\* the requests POST /api/search-new-bids and POST /api/reevaluate-bids
\* that the model lets arrive
MaxThreads == 3

\* how the run of a thread ends: it returns after the loop, returns early
\* (no companies, no bids), or raises
Outcomes == {"returned", "returned_early", "raised"}

\* lines 510-568 (570-637): the handler of a request answers 400 when the
\* flag is set; otherwise it starts a thread on run_process
Request(kind) ==
    /\ Len(threads) < MaxThreads
    /\ ~process_status[kind].running
    /\ threads' = Append(threads, [kind |-> kind, pc |-> "started", outcome |-> "none"])
    /\ UNCHANGED <<hvars, dbvars, runvars, config, matching_attributes, process_status>>

\* line 525 (585): the first statement of run_process
RunBegins(t) ==
    /\ t \in 1..Len(threads)
    /\ threads[t].pc = "started"
    /\ process_status' = [process_status EXCEPT ![threads[t].kind].running = TRUE]
    /\ threads' = [threads EXCEPT ![t].pc = "running"]
    /\ UNCHANGED <<hvars, dbvars, runvars, config, matching_attributes>>

\* lines 527-556 (587-630): the run ends and the try block or the except
\* block stores last_result
RunEnds(t) ==
    /\ t \in 1..Len(threads)
    /\ threads[t].pc = "running"
    /\ \E outcome \in Outcomes :
         /\ threads' = [threads EXCEPT ![t].pc = "finishing", ![t].outcome = outcome]
         /\ process_status' =
                [process_status EXCEPT ![threads[t].kind].last_result =
                    IF outcome = "raised" THEN "failure" ELSE "success"]
    /\ UNCHANGED <<hvars, dbvars, runvars, config, matching_attributes>>

\* variant of the end of run_process: the flag is reset at the end of the
\* try block, not in a finally block
RunFinally_unless_raised(t) ==
    /\ t \in 1..Len(threads)
    /\ threads[t].pc = "finishing"
    /\ process_status' =
           [process_status EXCEPT ![threads[t].kind].running =
               IF threads[t].outcome = "raised" THEN @ ELSE FALSE]
    /\ threads' = [threads EXCEPT ![t].pc = "ended"]
    /\ UNCHANGED <<hvars, dbvars, runvars, config, matching_attributes>>

\* lines 557-558 (631-632): the finally block, after which the thread ends
RunFinally(t) ==
    /\ t \in 1..Len(threads)
    /\ threads[t].pc = "finishing"
    /\ process_status' = [process_status EXCEPT ![threads[t].kind].running = FALSE]
    /\ threads' = [threads EXCEPT ![t].pc = "ended"]
    /\ UNCHANGED <<hvars, dbvars, runvars, config, matching_attributes>>

\* the steps of thread t
ThreadStep(t) == RunBegins(t) \/ RunEnds(t) \/ RunFinally(t)

NextStatus ==
    \/ \E kind \in Kinds : Request(kind)
    \/ \E t \in 1..MaxThreads : RunBegins(t)
    \/ \E t \in 1..MaxThreads : RunEnds(t)
    \/ \E t \in 1..MaxThreads : RunFinally(t)

InitStatus == h_op = "off" /\ h_in = <<>> /\ h_out = <<>> /\ EmptyDatabase /\ NoRun

SpecStatus == InitStatus /\ [][NextStatus]_vars

\* every started thread is scheduled, and a run returns or raises in
\* finite time (its loops are over finite lists and its requests time out)
SpecStatusFair ==
    SpecStatus /\ \A t \in 1..MaxThreads : WF_vars(ThreadStep(t))

---------------------------------------------------------------------------
(* Harness for preprocess_text: every text of at most MaxTextLen characters *)

TextAlphabet == {"t", "i", "T", "1", Space, "."}

RECURSIVE SeqsUpTo(_, _)
SeqsUpTo(S, n) ==
    IF n = 0 THEN {<<>>}
    ELSE LET shorter == SeqsUpTo(S, n - 1)
         IN  shorter \cup {Append(s, c) : s \in {x \in shorter : Len(x) = n - 1}, c \in S}

InitText ==
    /\ EmptyDatabase /\ NoRun
    /\ h_op = "idle"
    /\ h_in \in SeqsUpTo(TextAlphabet, MaxTextLen)
    /\ h_out = <<>>

\* normalize(x)
Normalize ==
    /\ h_op = "idle"
    /\ h_op' = "normalized"
    /\ h_out' = preprocess_text(h_in)
    /\ UNCHANGED <<h_in, dbvars, runvars, apivars>>

\* normalize(normalize(x)): the result is fed back as the next input
Renormalize ==
    /\ h_op = "normalized"
    /\ h_op' = "renormalized"
    /\ h_in' = h_out
    /\ h_out' = preprocess_text(h_out)
    /\ UNCHANGED <<dbvars, runvars, apivars>>

NextText == Normalize \/ Renormalize

SpecText == InitText /\ [][NextText]_vars

---------------------------------------------------------------------------
(* Harness for the backends: one vectorize or batch_vectorize call *)

\* blank, whitespace only, stopwords only, and two texts that vectorize
VecTexts == {T_blank, T_space, T_de, T_rede, T_de_obra}

InitVec ==
    /\ EmptyDatabase /\ NoRun
    /\ h_op = "idle"
    /\ h_in \in [vectorizer_type : VectorizerTypes,
                 texts : SeqsUpTo(VecTexts, MaxBatch),
                 api : ApiOutcomes,
                 enc : EncodeOutcomes]
    /\ h_out = Return(<<>>)

\* vectorizer.vectorize(text) on a text of the list
CallVectorize ==
    /\ h_op = "idle"
    /\ \E i \in 1..Len(h_in.texts) :
         /\ h_in' = [h_in EXCEPT !.texts = <<h_in.texts[i]>>]
         /\ h_out' = vectorize(h_in.vectorizer_type, h_in.texts[i], h_in.api, h_in.enc)
    /\ h_op' = "vectorize"
    /\ UNCHANGED <<dbvars, runvars, apivars>>

\* vectorizer.batch_vectorize(texts)
CallBatchVectorize ==
    /\ h_op = "idle"
    /\ h_out' = batch_vectorize(h_in.vectorizer_type, h_in.texts, h_in.api, h_in.enc)
    /\ h_op' = "batch_vectorize"
    /\ UNCHANGED <<h_in, dbvars, runvars, apivars>>

NextVec == CallVectorize \/ CallBatchVectorize

SpecVec == InitVec /\ [][NextVec]_vars

---------------------------------------------------------------------------
(* Harness for calculate_enhanced_similarity *)

T_ti == <<"t", "i">>
T_TI_rede == <<"T", "I", " ", "r", "e", "d", "e">>

SimVectors == {<<>>, <<1, 0>>, <<3, 4>>, <<-1, 0>>, <<0, 0>>, <<1, 0, 0>>}
T_tinta == <<"t", "i", "n", "t", "a">>
SimTexts == {T_blank, T_de, T_rede, T_de_obra, T_ti, T_TI_rede, T_tinta}

InitSim ==
    /\ EmptyDatabase /\ NoRun
    /\ h_op = "idle"
    /\ h_in \in [vec1 : SimVectors, vec2 : SimVectors, text1 : SimTexts, text2 : SimTexts]
    /\ h_out = 0

Score ==
    /\ h_op = "idle"
    /\ h_out' = calculate_enhanced_similarity(h_in.vec1, h_in.vec2, h_in.text1, h_in.text2)
    /\ h_op' = "scored"
    /\ UNCHANGED <<h_in, dbvars, runvars, apivars>>

NextSim == Score

SpecSim == InitSim /\ [][NextSim]_vars

---------------------------------------------------------------------------
(* Properties of the backends (SpecVec) *)

HarnessCalled == h_op \in {"vectorize", "batch_vectorize"}

\* C3: a batch_vectorize call that succeeds (no exception, a non-empty
\* list) returns one embedding per input text, blank texts included, for
\* every backend.
C3_BatchLengthEqualsInput ==
    (h_op = "batch_vectorize" /\ ~h_out.raised /\ h_out.value # <<>>)
        => Len(h_out.value) = Len(h_in.texts)

\* what the primary and the secondary backend answer to the call made on
\* the hybrid vectorizer
PrimaryResult ==
    IF h_op = "vectorize"
    THEN OpenAI_vectorize(h_in.texts[1], h_in.api)
    ELSE OpenAI_batch_vectorize(h_in.texts, h_in.api)

SecondaryResult ==
    IF h_op = "vectorize"
    THEN ST_vectorize(h_in.texts[1], h_in.enc)
    ELSE ST_batch_vectorize(h_in.texts, h_in.enc)

PrimaryUsable ==
    /\ h_in.vectorizer_type = "hybrid"
    /\ ~PrimaryResult.raised
    /\ PrimaryResult.value # <<>>

\* C9: a call on the hybrid vectorizer never raises; it returns the
\* primary's result when that is non-empty; when the primary raises or
\* returns nothing it returns what the secondary answers to the same call,
\* which is the empty result when the secondary fails too.
C9_HybridFallsBack ==
    (HarnessCalled /\ h_in.vectorizer_type \in {"hybrid", "hybrid_no_key"}) =>
        /\ ~h_out.raised
        /\ PrimaryUsable => h_out = PrimaryResult
        /\ ~PrimaryUsable => h_out = SecondaryResult
        /\ (~PrimaryUsable /\ h_in.enc = "error") => h_out.value = <<>>

\* C9 witness: the primary raised and the secondary's vector was returned
C9_Witness ==
    /\ h_op = "vectorize"
    /\ h_in.vectorizer_type = "hybrid"
    /\ h_in.api = "malformed"
    /\ h_out.value = STEmbedding(preprocess_text(h_in.texts[1]))
    /\ preprocess_text(h_in.texts[1]) # <<>>

\* the dimension of the vectors of a backend; the hybrid returns those of
\* the backend that answered
Dimensions(vectorizer_type) ==
    CASE vectorizer_type = "openai" -> {2}
      [] vectorizer_type = "sentence_transformers" -> {3}
      [] vectorizer_type = "mock" -> {Len(MockCategories)}
      [] OTHER -> {2, 3}

\* C10: for every backend, vectorize(text) returns the empty result when
\* the normalised text is empty, and a vector of the backend's dimension
\* when it is not and the backend's model answers.
C10_EmptyInputYieldsNoVector ==
    h_op = "vectorize" =>
        /\ preprocess_text(h_in.texts[1]) = <<>> => h_out = Return(<<>>)
        /\ (preprocess_text(h_in.texts[1]) # <<>> /\ h_in.api = "ok" /\ h_in.enc = "ok")
               => (~h_out.raised /\ Len(h_out.value) \in Dimensions(h_in.vectorizer_type))

---------------------------------------------------------------------------
(* Properties of the scorer (SpecSim) *)

\* C5: the score of calculate_enhanced_similarity lies in [0, 1], for all
\* vectors and all texts.
C5_ScoreInUnitInterval ==
    h_op = "scored" => (0 <= h_out /\ h_out <= SCALE)

---------------------------------------------------------------------------
(* Properties of the normaliser (SpecText) *)

\* C8: preprocess_text is idempotent: normalising a normalised text
\* changes nothing.
C8_NormalizeIdempotent ==
    h_op = "renormalized" => h_out = h_in

---------------------------------------------------------------------------
(* Properties of the runs *)

\* the positions of the rows that a step appends to the table matches
Appended == (Len(matches) + 1)..Len(matches')

IsRunRow(row) == row.data_match = "run"

\* the score of two embedded texts, as both phases compute it
ScoreOf(embedding, text, company) ==
    calculate_enhanced_similarity(embedding, company.embedding, text,
                                  company.descricao_servicos_produtos)

\* the embeddings the vectorizer of the run can give a text by itself
OwnEmbeddings(text) ==
    {vectorize(vectorizer, text, api, enc).value :
        api \in ApiOutcomes, enc \in EncodeOutcomes}

\* C1: in both runs, phase 2 is entered and items are embedded only for a
\* bid with at least one item; a row saved for a bid without items has
\* match_type objeto_completo, and a row of match_type objeto_e_itens is
\* saved only for a bid that has items.
C1_ItemsDecideMatchType ==
    [][ /\ pc' = "phase2" => items' # <<>>
        /\ item_embeddings' # <<>> => items' # <<>>
        /\ \A n \in Appended :
             /\ items = <<>> => matches'[n].match_type = "objeto_completo"
             /\ matches'[n].match_type = "objeto_e_itens" =>
                   /\ items # <<>>
                   /\ BidCatalogue[matches'[n].licitacao_id].items # <<>>
      ]_vars

C1_Witness ==
    /\ pc = "record"
    /\ items = <<>>
    /\ \E n \in 1..Len(matches) :
         /\ IsRunRow(matches[n])
         /\ matches[n].licitacao_id = pncp_id
         /\ matches[n].match_type = "objeto_completo"
    /\ \E n \in 1..Len(matches) :
         /\ IsRunRow(matches[n])
         /\ matches[n].match_type = "objeto_e_itens"

\* C2: when phase 2 ends for a bid with items, a phase-1 candidate for
\* which no item was scored at or above the phase-2 threshold gets no row
\* for that bid in that step.
C2_NoQualifyingItemNoMatch ==
    [][ pc = "phase2" =>
          \A k \in 1..Len(potential_matches) :
             LET company == potential_matches[k].company
                 qualifies(idx) ==
                     /\ item_embeddings'[idx] # <<>>
                     /\ ScoreOf(item_embeddings'[idx], items[idx], company)
                            >= SIMILARITY_THRESHOLD_PHASE2
             IN  (~ \E idx \in 1..Len(item_embeddings') : qualifies(idx)) =>
                     ~ \E n \in Appended : matches'[n].empresa_id = company.id
      ]_vars

C2_Witness ==
    /\ pc = "record"
    /\ items # <<>>
    /\ item_embeddings # <<>>
    /\ \E k \in 1..Len(potential_matches) :
         ~ \E n \in 1..Len(matches) :
              /\ IsRunRow(matches[n])
              /\ matches[n].licitacao_id = pncp_id
              /\ matches[n].empresa_id = potential_matches[k].company.id

\* C4: every loaded company carries the embedding of its own description
\* or none, and in phase 2 the embedding at a position is the embedding of
\* the item description at that position or none.
C4_EmbeddingsAligned ==
    /\ \A c \in 1..Len(companies) :
         companies[c].embedding \in
             {<<>>} \cup OwnEmbeddings(companies[c].descricao_servicos_produtos)
    /\ \A idx \in 1..Len(item_embeddings) :
         /\ idx <= Len(items)
         /\ item_embeddings[idx] \in {<<>>} \cup OwnEmbeddings(items[idx])

\* the states in which phase 1 of the current bid is complete
Phase1Done == pc \in {"phase2", "phase1_only", "record"}

\* C6: after phase 1 of a bid, in both runs, the candidates are exactly the
\* companies with an embedding whose score is at or above the phase-1
\* threshold: a score equal to the threshold is retained, a score below it
\* never is.
C6_ThresholdIsInclusive ==
    Phase1Done =>
        \A c \in 1..Len(companies) :
            companies[c].embedding # <<>> =>
                ((ScoreOf(bid_embedding, objeto_compra, companies[c])
                      >= SIMILARITY_THRESHOLD_PHASE1)
                 <=> (\E k \in 1..Len(potential_matches) :
                         potential_matches[k].company.id = companies[c].id))

C6_Witness ==
    /\ Phase1Done
    /\ \E k \in 1..Len(potential_matches) :
         /\ potential_matches[k].score = SIMILARITY_THRESHOLD_PHASE1
         /\ ScoreOf(bid_embedding, objeto_compra, potential_matches[k].company)
                = SIMILARITY_THRESHOLD_PHASE1

C11_DimensionMismatchScoresZero ==
    (/\ h_op = "scored"
     /\ h_in.vec1 # <<>> /\ h_in.vec2 # <<>>
     /\ Len(h_in.vec1) # Len(h_in.vec2)) => h_out = 0

\* C12: in both runs, when the embedding of a bid's object text comes out
\* empty, the bid is skipped: the run goes on to the next bid without
\* scoring, no row is saved, and the counter vetorizacao_falhou of the
\* statistics grows by one.
C12_EmptyEmbeddingSkipsBid ==
    [][ (/\ pc = "bid"
         /\ objeto_compra # <<>>
         /\ pc' # "raised"
         /\ bid_embedding' = <<>>) =>
            /\ pc' \in {"bid", "report"}
            /\ bid_index' = bid_index + 1
            /\ matches' = matches
            /\ estatisticas'.vetorizacao_falhou = estatisticas.vetorizacao_falhou + 1
      ]_vars

\* C13: a failure while one company or one bid is processed never aborts
\* the run: no run stops on an exception, so the loop always gets to its
\* remaining bids and to the final report.
C13_FailureNeverAbortsRun == pc # "raised"

\* What the two phases save for one bid with the item descriptions its,
\* for the loaded companies comps, when no backend call fails
\* (lines 298-415 of reevaluate_existing_bids).
\* variant: the re-evaluation of a bid stops after phase 1
RowsOfBid_phase1_only(vt, comps, id, its) ==
    LET objeto == BidCatalogue[id].objetoCompra
        embedding == vectorize(vt, objeto, "ok", "ok").value
        candidates == phase1(embedding, objeto, comps)
    IN  IF objeto = <<>> \/ embedding = <<>> \/ candidates = <<>> THEN <<>>
        ELSE phase1_only_rows(id, candidates)

RowsOfBid(vt, comps, id, its) ==
    LET objeto == BidCatalogue[id].objetoCompra
        embedding == vectorize(vt, objeto, "ok", "ok").value
        candidates == phase1(embedding, objeto, comps)
    IN  IF objeto = <<>> \/ embedding = <<>> \/ candidates = <<>> THEN <<>>
        ELSE IF HasItems(its)
             THEN phase2_rows(id, candidates, its,
                              batch_vectorize(vt, its, "ok", "ok").value)
             ELSE phase1_only_rows(id, candidates)

\* the companies as a run loads them when no backend call fails
FreshCompanies(vt) ==
    attach_embeddings(get_all_companies_from_db,
        batch_vectorize(vt, empresas, "ok", "ok").value)

RECURSIVE RowsOfBids(_, _, _)
RowsOfBids(vt, ids, itemsOf) ==
    IF ids = <<>> \/ empresas = <<>> THEN <<>>
    ELSE RowsOfBid(vt, FreshCompanies(vt), Head(ids), itemsOf[Head(ids)])
             \o RowsOfBids(vt, Tail(ids), itemsOf)

\* the rows of a re-evaluation of the stored bids on an empty table matches
FreshReevaluation == RowsOfBids(vectorizer, get_existing_bids_from_db, licitacao_itens)

\* C14: in a re-evaluation with clear_matches = True no row from before
\* the run is left once the run has begun, and when the run completes
\* (no backend call having failed) the table matches holds exactly the rows
\* that a re-evaluation of the same stored bids and companies on an empty
\* table saves.
C14_ClearedReevaluationIsFresh ==
    (run = "reevaluate" /\ clear_matches) =>
        /\ \A n \in 1..Len(matches) : IsRunRow(matches[n])
        /\ (pc = "done" /\ faults = 0) => matches = FreshReevaluation

C14_Witness ==
    /\ run = "reevaluate" /\ clear_matches
    /\ pc = "done" /\ faults = 0
    /\ Len(matches) >= 2

\* the cutoffs that the body of the request asks for
ConfiguredPhase1 == get(config, "similarity_threshold_phase1", Hundredths(65))
ConfiguredPhase2 == get(config, "similarity_threshold_phase2", Hundredths(70))

\* C15: a threshold given in the body of the request that starts a run is
\* the cutoff of that run's comparisons, and 0.65 and 0.70 are the cutoffs
\* without it: phase 1 keeps exactly the embedded companies that score at
\* least the phase-1 cutoff asked for, and phase 2 saves a row for exactly
\* the candidates with an embedded item that scores at least the phase-2
\* cutoff asked for.
C15_ConfiguredThresholdsAreUsed ==
    [][ /\ pc = "phase1" =>
            \A c \in 1..Len(companies) :
                companies[c].embedding # <<>> =>
                    ((\E k \in 1..Len(potential_matches') :
                          potential_matches'[k].company.id = companies[c].id)
                     <=> ScoreOf(bid_embedding, objeto_compra, companies[c])
                             >= ConfiguredPhase1)
        /\ (pc = "phase2" /\ pc' = "record") =>
            \A k \in 1..Len(potential_matches) :
                ((\E n \in Appended :
                      matches'[n].empresa_id = potential_matches[k].company.id)
                 <=> \E idx \in 1..Len(item_embeddings') :
                        /\ item_embeddings'[idx] # <<>>
                        /\ ScoreOf(item_embeddings'[idx], items[idx],
                                   potential_matches[k].company)
                               >= ConfiguredPhase2) ]_vars

\* the positions of the embedded items that qualify for a company, as
\* the run scores them
QualifyingItems(company, item_descriptions, embeddings) ==
    SelectSeq([idx \in 1..Len(embeddings) |-> idx],
              LAMBDA idx : /\ embeddings[idx] # <<>>
                           /\ ScoreOf(embeddings[idx], item_descriptions[idx], company)
                                  >= SIMILARITY_THRESHOLD_PHASE2)

\* the candidate of the current bid that a row is saved for
CandidateOf(row) ==
    CHOOSE cand \in {potential_matches[k] : k \in 1..Len(potential_matches)} :
        cand.company.id = row.empresa_id

\* C16: a row saved in phase 2 for a candidate with k >= 1 qualifying items
\* has match_type objeto_e_itens and the score
\* (phase-1 score + (sum of the qualifying item scores) / k) / 2; the items
\* below the phase-2 threshold and the items without embedding are in
\* neither the sum nor k.
C16_FinalScoreIsMeanOfPhases ==
    [][ (pc = "phase2" /\ pc' = "record") =>
            \A n \in Appended :
                LET row == matches'[n]
                    cand == CandidateOf(row)
                    qualifying == QualifyingItems(cand.company, items, item_embeddings')
                    k == Len(qualifying)
                    total == SumSeq([q \in 1..k |->
                                 ScoreOf(item_embeddings'[qualifying[q]],
                                         items[qualifying[q]], cand.company)])
                IN  /\ k >= 1
                    /\ row.match_type = "objeto_e_itens"
                    /\ row.score * 2 * k = cand.score * k + total ]_vars

\* a row of phase 2 is saved for a company with two qualifying items whose
\* mean differs from the phase-1 score, for a bid that has a third item
C16_Witness ==
    /\ pc = "record"
    /\ Len(matches) >= 1
    /\ LET row == matches[Len(matches)]
       IN  /\ IsRunRow(row)
           /\ row.licitacao_id = pncp_id
           /\ row.match_type = "objeto_e_itens"
           /\ row.score # row.score_fase1
           /\ Len(QualifyingItems(CandidateOf(row).company, items, item_embeddings))
                  \in 2..(Len(items) - 1)

\* the status of a bid in a table licitacoes
StatusOf(table, id) ==
    (CHOOSE row \in {table[k] : k \in 1..Len(table)} : row.pncp_id = id).status

\* C17: in both runs, the step that ends the loop body of a bid whose
\* companies were all evaluated leaves the bid with status processada,
\* whether or not a row was saved for it, and a bid that has the status
\* keeps it until the end of the run.
C17_EvaluatedBidIsRecorded ==
    [][ /\ pc = "record" => StatusOf(licitacoes', pncp_id) = "processada"
        /\ \A k \in 1..Len(licitacoes) :
               licitacoes[k].status = "processada" =>
                   StatusOf(licitacoes', licitacoes[k].pncp_id) = "processada" ]_vars

\* the state of the bid id in the run: 0 not reached yet, 1 fetched,
\* 2 phase 1 evaluated, 3 phase 2 evaluated or finalized by phase 1 alone,
\* 4 recorded (or left: skipped, or the run raised)
BidState(p, b, at, id) ==
    LET here == p \in {"bid", "phase1", "phase2", "phase1_only", "record", "raised"}
                /\ at \in 1..Len(b) /\ b[at] = id
    IN  CASE here /\ p \in {"bid", "phase1"} -> 1
          [] here /\ p \in {"phase2", "phase1_only"} -> 2
          [] here /\ p = "record" -> 3
          [] here /\ p = "raised" -> 4
          [] ~here /\ (\E k \in 1..Len(b) : k < at /\ b[k] = id) -> 4
          [] OTHER -> 0

\* C18: within a run the state of every bid only advances along fetched,
\* phase 1 evaluated, phase 2 evaluated or finalized by phase 1 alone,
\* recorded: it never returns to an earlier state, the items of a bid are
\* scored only after its phase 1 is complete, and a row is saved for a bid
\* only after its phase 1 is complete.
C18_BidStateOnlyAdvances ==
    [][ /\ \A id \in PncpIds :
               BidState(pc', bids', bid_index', id) >= BidState(pc, bids, bid_index, id)
        /\ item_embeddings' # <<>> =>
               (pc = "phase2" \/ item_embeddings' = item_embeddings)
        /\ (Appended # {} /\ pc # "idle") =>
               /\ pc \in {"phase2", "phase1_only"}
               /\ \A n \in Appended : matches'[n].licitacao_id = pncp_id ]_vars

\* the position at which a company was loaded
LoadPosition(id) == CHOOSE c \in 1..Len(companies) : companies[c].id = id

\* C19: phase 1 of a bid scores every company that has an embedding once
\* and in the order the companies were loaded: the candidates are companies
\* with an embedding, each with the score of its own embedding and text, no
\* company twice, in load order, and every embedded company that reaches
\* the threshold is among them; a company without embedding is neither a
\* candidate nor given a row; the rows of a bid are saved in load order.
C19_Phase1KeepsLoadOrder ==
    [][ /\ pc = "phase1" =>
            /\ \A k \in 1..Len(potential_matches') :
                   LET cand == potential_matches'[k]
                   IN  /\ \E c \in 1..Len(companies) : companies[c] = cand.company
                       /\ cand.company.embedding # <<>>
                       /\ cand.score = ScoreOf(bid_embedding, objeto_compra, cand.company)
            /\ \A j, k \in 1..Len(potential_matches') :
                   j < k => LoadPosition(potential_matches'[j].company.id)
                                < LoadPosition(potential_matches'[k].company.id)
            /\ \A c \in 1..Len(companies) :
                   (/\ companies[c].embedding # <<>>
                    /\ ScoreOf(bid_embedding, objeto_compra, companies[c])
                           >= SIMILARITY_THRESHOLD_PHASE1)
                   => \E k \in 1..Len(potential_matches') :
                          potential_matches'[k].company = companies[c]
        /\ \A n \in Appended :
               companies[LoadPosition(matches'[n].empresa_id)].embedding # <<>>
        /\ \A m, n \in Appended :
               m < n => LoadPosition(matches'[m].empresa_id)
                            < LoadPosition(matches'[n].empresa_id) ]_vars

\* two candidates of one bid got their rows
C19_Witness ==
    /\ pc = "record"
    /\ Len(potential_matches) = 2
    /\ Len(matches) >= 2
    /\ LET last == matches[Len(matches)]
           before == matches[Len(matches) - 1]
       IN  /\ IsRunRow(last) /\ IsRunRow(before)
           /\ last.licitacao_id = pncp_id /\ before.licitacao_id = pncp_id
           /\ before.empresa_id = potential_matches[1].company.id
           /\ last.empresa_id = potential_matches[2].company.id

\* C20: whatever the flag use_openai, a call on the hybrid vectorizer whose
\* primary gave no usable output goes on to the secondary: a call returns
\* the empty result only when the primary gave nothing usable and the
\* empty result is what the secondary answered to that call.
C20_EmptyOnlyAfterSecondary ==
    (/\ HarnessCalled
     /\ h_in.vectorizer_type \in {"hybrid", "hybrid_no_key"}
     /\ ~h_out.raised
     /\ h_out.value = <<>>) =>
        /\ ~PrimaryUsable
        /\ SecondaryResult = h_out

\* C20 witness: the primary's request failed, the secondary was asked for
\* a text it has a vector for, failed too, and the call returned nothing
C20_Witness ==
    /\ h_op = "vectorize"
    /\ h_in.vectorizer_type = "hybrid"
    /\ h_in.api = "request_error"
    /\ h_in.enc = "error"
    /\ preprocess_text(h_in.texts[1]) # <<>>
    /\ h_out = Return(<<>>)

\* C21: a call on the OpenAI vectorizer never raises into its caller: when
\* the request fails or the response body is malformed, vectorize returns
\* the empty result and batch_vectorize the empty list, and a batch call
\* returns either nothing or one embedding for every text it submitted.
C21_OpenAINeverRaises ==
    (HarnessCalled /\ h_in.vectorizer_type = "openai") =>
        /\ ~h_out.raised
        /\ h_in.api # "ok" => h_out.value = <<>>
        /\ h_op = "batch_vectorize" =>
               Len(h_out.value) \in {0, Len(clean_texts(h_in.texts))}

\* C22: a batch_vectorize call of a run is all or nothing: when the list
\* it returned has not one embedding per input, no company of the batch
\* gets an embedding (none is scored), and no row is saved from the items
\* of the batch.
C22_BatchIsAllOrNothing ==
    [][ /\ (pc = "idle" /\ \E c \in 1..Len(companies') : companies'[c].embedding = <<>>)
               => \A c \in 1..Len(companies') : companies'[c].embedding = <<>>
        /\ (pc = "phase2" /\ Len(item_embeddings') # Len(items))
               => Appended = {} ]_vars

\* the tokens of the normalised form of a text
NormalizedTokens(text) == SeqToSet(split(preprocess_text(text)))

\* C23: the word bonus of calculate_enhanced_similarity is
\* min(0.05 * n, 0.20) for the n distinct tokens that the normalised forms
\* of the two texts share, so that a stopword, a token of fewer than three
\* characters or a number adds nothing: the score is the clamped sum of
\* the cosine, that bonus and the technical-term bonus.
C23_WordBonusCountsNormalizedTokens ==
    h_op = "scored" =>
        h_out = final_score(
                    calculate_cosine_similarity(h_in.vec1, h_in.vec2)
                    + Min(Cardinality(NormalizedTokens(h_in.text1)
                                          \cap NormalizedTokens(h_in.text2))
                              * Hundredths(5), Hundredths(20))
                    + tech_bonus(h_in.text1, h_in.text2))

\* the acronyms of the vocabulary that are a word of both lower-cased texts
TokenTechTerms(text1, text2) ==
    SelectSeq(tech_terms,
              LAMBDA term : /\ term \in SeqToSet(split(lower(text1)))
                            /\ term \in SeqToSet(split(lower(text2))))

\* C24: the technical-term bonus of calculate_enhanced_similarity is
\* min(0.03 * m, 0.10) for the m acronyms of the vocabulary that are a
\* token of both texts; an acronym that is only part of a longer word is
\* not counted: the score is the clamped sum of the cosine, the word bonus
\* and that bonus.
C24_TechBonusCountsTokens ==
    h_op = "scored" =>
        h_out = final_score(
                    calculate_cosine_similarity(h_in.vec1, h_in.vec2)
                    + word_bonus(h_in.text1, h_in.text2)
                    + Min(Len(TokenTechTerms(h_in.text1, h_in.text2)) * Hundredths(3),
                          Hundredths(10)))

\* C25: the only things a run does to the table matches are to append rows
\* and, at the start of a re-evaluation called with clear_matches = TRUE,
\* to delete all rows at once; a re-evaluation called with
\* clear_matches = FALSE removes and changes no stored row.
C25_MatchesOnlyAppendedOrCleared ==
    [][ \/ /\ Len(matches') >= Len(matches)
           /\ SubSeq(matches', 1, Len(matches)) = matches
        \/ /\ pc = "idle" /\ run' = "reevaluate" /\ clear_matches'
           /\ matches' = <<>> ]_vars

\* a re-evaluation that kept the stored row has saved a row of its own for
\* the same bid and company
C25_Witness ==
    /\ run = "reevaluate" /\ ~clear_matches
    /\ Len(matches) >= 2
    /\ ~IsRunRow(matches[1])
    /\ \E n \in 2..Len(matches) :
           /\ IsRunRow(matches[n])
           /\ matches[n].licitacao_id = matches[1].licitacao_id
           /\ matches[n].empresa_id = matches[1].empresa_id

\* the records (bid id, company id, score, match_type) of the rows that a
\* run saved
Records(rows) ==
    {<<rows[n].licitacao_id, rows[n].empresa_id, rows[n].score, rows[n].match_type>> :
        n \in {k \in 1..Len(rows) : IsRunRow(rows[k])}}

\* C26: for the same companies, bids, items, embeddings and thresholds the
\* two runs emit the same records: when a daily run completes (no backend
\* call having failed), the records it saved are those that
\* reevaluate_existing_bids computes for the same bids read, with their
\* items, from the store.
C26_DailyEqualsReevaluation ==
    (run = "daily" /\ pc = "done" /\ faults = 0) =>
        Records(matches) = Records(RowsOfBids(vectorizer, bids, licitacao_itens))

\* a completed daily run that saved a row in phase 2 and a row of phase 1
\* alone
C26_Witness ==
    /\ run = "daily" /\ pc = "done" /\ faults = 0
    /\ \E r \in Records(matches) : r[4] = "objeto_e_itens"
    /\ \E r \in Records(matches) : r[4] = "objeto_completo"

\* the threads of a kind that have been started and have not ended
InProgress(kind) ==
    {t \in 1..Len(threads) : threads[t].kind = kind /\ threads[t].pc # "ended"}

\* C27: at any time at most one background thread of each kind has been
\* started and has not ended, however the requests interleave.
C27_OneProcessOfAKind ==
    \A kind \in Kinds : Cardinality(InProgress(kind)) <= 1

\* C28: every background thread that was started ends, having stored a
\* last_result and reset the flag running, whether its run returned,
\* returned early or raised; once all the threads of a kind have ended the
\* flag of the kind is False and a last_result is stored.
C28_RunningFlagIsReset ==
    /\ [](\A kind \in Kinds :
              (InProgress(kind) = {} /\ \E t \in 1..Len(threads) : threads[t].kind = kind)
                  => /\ ~process_status[kind].running
                     /\ process_status[kind].last_result # "None")
    /\ \A t \in 1..MaxThreads :
           (Len(threads) >= t) ~> (Len(threads) >= t /\ threads[t].pc = "ended")

\* a thread whose run raised has ended: the flag is False and the failure
\* is stored
C28_Witness ==
    /\ Len(threads) = 1
    /\ threads[1].pc = "ended"
    /\ threads[1].outcome = "raised"
    /\ ~process_status[threads[1].kind].running
    /\ process_status[threads[1].kind].last_result = "failure"

\* the rows that the run has saved for the bid id and the company c
RunRowsOf(id, c) ==
    {n \in 1..Len(matches) :
        /\ IsRunRow(matches[n])
        /\ matches[n].licitacao_id = id
        /\ matches[n].empresa_id = c}

\* the bids a daily run takes up were not in the store before the run
TakesUpOnlyNewBids ==
    (pc = "fetch" /\ run = "daily") =>
        \A k \in 1..Len(bids') : bids'[k] \notin get_processed_bid_ids

\* a run takes up no bid twice
TakesUpNoBidTwice ==
    pc = "fetch" =>
        \A k, l \in 1..Len(bids') : k # l => bids'[k] # bids'[l]

\* C29: a run saves at most one row per pair of bid and company and takes
\* up each bid at most once; a daily run takes up no bid that was in the
\* store before the run, and a bid that the fetch returns twice only once.
C29_OneRowPerPairAndRun ==
    /\ [](\A id \in PncpIds, c \in 1..MaxCompanies : Cardinality(RunRowsOf(id, c)) <= 1)
    /\ [][TakesUpOnlyNewBids /\ TakesUpNoBidTwice]_vars

\* the rows that the run has saved
SavedByRun == {n \in 1..Len(matches) : IsRunRow(matches[n])}

\* the bids of the run for which the run has saved a row
BidsWithRows ==
    {k \in 1..Len(bids) : \E n \in SavedByRun : matches[n].licitacao_id = bids[k]}

\* the counters of the rows agree with the rows saved
RowCountersAgree ==
    /\ matches_encontrados = Cardinality(SavedByRun)
    /\ matches_encontrados =
           estatisticas.matches_fase1_apenas + estatisticas.matches_fase2

\* the counters of the bids add up
BidCountersAddUp ==
    estatisticas.total_processadas = estatisticas.com_matches + estatisticas.sem_matches

\* C30: when a run has completed, matches_encontrados is the number of rows
\* the run saved and the sum of matches_fase1_apenas and matches_fase2,
\* total_processadas is the sum of com_matches and sem_matches, and
\* com_matches is the number of bids of the run with a saved row.
C30_StatisticsAreConsistent ==
    pc = "done" =>
        /\ RowCountersAgree
        /\ BidCountersAddUp
        /\ estatisticas.com_matches = Cardinality(BidsWithRows)

=============================================================================
